---- MODULE Spec2Model ----
(***************************************************************************)
(* youtube-playlist-info (src/main.py): the pipeline of main               *)
(*   paged playlistItems.list -> one videos.list -> zip into Items ->      *)
(*   optional "Total Duration" row -> Markdown or CSV on stdout            *)
(* together with the duration parser _extract_duration and the text form   *)
(* of datetime.timedelta that the rows are printed with.                   *)
(*                                                                         *)
(* Text is modelled by TLA+ strings: \o, Len and SubSeq act on them as on  *)
(* Python str.  An optional value (Python's None or a value) is a sequence *)
(* of length 0 or 1.                                                       *)
(***************************************************************************)
EXTENDS Integers, Sequences, FiniteSets, TLC

(***************************************************************************)
(* Bounds of the model.                                                    *)
(***************************************************************************)
\* the most pages the playlist endpoint serves before its token chain ends
MaxPages == 2
\* the most items the playlist holds, over all its pages
MaxListed == 3
\* the most records the videos endpoint returns for one request
DetailBatchLimit == 2
\* the most digits of the number in one duration fragment
MaxDigits == 2

\* maxResults of the playlistItems request
PageSize == 50

(***************************************************************************)
(* Characters and numbers.                                                 *)
(***************************************************************************)
DigitChars == {"0", "1", "2", "3", "4", "5", "6", "7", "8", "9"}

CharAt(s, i) == SubSeq(s, i, i)

\* the value of one decimal digit, as int() reads it
DigitVal(c) ==
  CASE c = "0" -> 0 [] c = "1" -> 1 [] c = "2" -> 2 [] c = "3" -> 3
    [] c = "4" -> 4 [] c = "5" -> 5 [] c = "6" -> 6 [] c = "7" -> 7
    [] c = "8" -> 8 [] c = "9" -> 9

\* the character of one decimal digit, as %d writes it
DigitChar(d) ==
  CASE d = 0 -> "0" [] d = 1 -> "1" [] d = 2 -> "2" [] d = 3 -> "3"
    [] d = 4 -> "4" [] d = 5 -> "5" [] d = 6 -> "6" [] d = 7 -> "7"
    [] d = 8 -> "8" [] d = 9 -> "9"

\* int(s) for a string of decimal digits: left to right, leading zeros allowed
RECURSIVE IntOfPrefix(_, _)
IntOfPrefix(s, n) ==
  IF n = 0 THEN 0 ELSE 10 * IntOfPrefix(s, n - 1) + DigitVal(CharAt(s, n))

int(s) == IntOfPrefix(s, Len(s))

\* "%d" % n for n >= 0
RECURSIVE FormatD(_)
FormatD(n) ==
  IF n < 10 THEN DigitChar(n) ELSE FormatD(n \div 10) \o DigitChar(n % 10)

\* a variant of Format02D that does not pad to two digits
Format02D_unpadded(n) == FormatD(n)

\* "%02d" % n for n >= 0
Format02D(n) == IF n < 10 THEN "0" \o DigitChar(n) ELSE FormatD(n)

(***************************************************************************)
(* re.compile(r"(\d+)X").search(s): the leftmost match.  At a start        *)
(* position the greedy \d+ takes the whole run of digits; giving digits    *)
(* back cannot help, since the suffix letter is no digit.  The result is   *)
(* <<>> for None and <<group(1)>> for a match.                             *)
(***************************************************************************)
RECURSIVE DigitRunEnd(_, _)
DigitRunEnd(s, i) ==
  IF i < Len(s) /\ CharAt(s, i + 1) \in DigitChars
  THEN DigitRunEnd(s, i + 1)
  ELSE i

MatchesAt(s, suffix, i) ==
  /\ CharAt(s, i) \in DigitChars
  /\ DigitRunEnd(s, i) < Len(s)
  /\ CharAt(s, DigitRunEnd(s, i) + 1) = suffix

RECURSIVE SearchFrom(_, _, _)
SearchFrom(s, suffix, i) ==
  IF i > Len(s) THEN <<>>
  ELSE IF MatchesAt(s, suffix, i) THEN <<SubSeq(s, i, DigitRunEnd(s, i))>>
  ELSE SearchFrom(s, suffix, i + 1)

\* a variant of hours_pattern that uses match (anchored at the start), not search
hours_pattern_match(s) ==
  IF Len(s) >= 1 /\ MatchesAt(s, "H", 1)
  THEN <<SubSeq(s, 1, DigitRunEnd(s, 1))>>
  ELSE <<>>

hours_pattern(s) == SearchFrom(s, "H", 1)
minutes_pattern(s) == SearchFrom(s, "M", 1)
seconds_pattern(s) == SearchFrom(s, "S", 1)

(***************************************************************************)
(* datetime.timedelta: days and seconds, normalised so that                *)
(* 0 <= seconds < 86400 (microseconds are always 0 here).                  *)
(***************************************************************************)
timedelta(hours, minutes, seconds) ==
  LET total == hours * 3600 + minutes * 60 + seconds
  IN  [days |-> total \div 86400, seconds |-> total % 86400]

\* timedelta.__add__
TimedeltaAdd(a, b) ==
  LET total == (a.days + b.days) * 86400 + a.seconds + b.seconds
  IN  [days |-> total \div 86400, seconds |-> total % 86400]

\* str(timedelta), the form an f-string gives item.duration
TimedeltaStr(td) ==
  LET mm0 == td.seconds \div 60
      ss  == td.seconds % 60
      hh  == mm0 \div 60
      mm  == mm0 % 60
      s   == FormatD(hh) \o ":" \o Format02D(mm) \o ":" \o Format02D(ss)
  IN  IF td.days # 0
      THEN FormatD(td.days) \o " day" \o (IF td.days # 1 THEN "s" ELSE "")
             \o ", " \o s
      ELSE s

(***************************************************************************)
(* Field extraction.                                                       *)
(***************************************************************************)
_extract_duration(item) ==
  LET duration == item.contentDetails.duration
      hours    == hours_pattern(duration)
      minutes  == minutes_pattern(duration)
      seconds  == seconds_pattern(duration)
  IN  timedelta(IF hours # <<>> THEN int(hours[1]) ELSE 0,
                IF minutes # <<>> THEN int(minutes[1]) ELSE 0,
                IF seconds # <<>> THEN int(seconds[1]) ELSE 0)

_extract_title(item) == item.snippet.title

_create_link(video_id) == "https://www.youtube.com/watch?v=" \o video_id

create_item(item, video_id) ==
  [title    |-> _extract_title(item),
   url      |-> _create_link(video_id),
   duration |-> _extract_duration(item)]

\* sum(list, start): start + list[0] + list[1] + ...
RECURSIVE sum(_, _)
sum(list, start) ==
  IF list = <<>> THEN start
  ELSE sum(Tail(list), TimedeltaAdd(start, Head(list)))

\* a variant of get_total_duration that leaves the first item out
get_total_duration_skip_first(its) ==
  sum([i \in 1..(Len(its) - 1) |-> its[i + 1].duration], timedelta(0, 0, 0))

get_total_duration(its) ==
  sum([i \in 1..Len(its) |-> its[i].duration], timedelta(0, 0, 0))

\* zip(a, b): pairs up to the shorter argument
zip(a, b) ==
  [i \in 1..(IF Len(a) < Len(b) THEN Len(a) ELSE Len(b)) |-> <<a[i], b[i]>>]

\* a variant of create_items that takes each link from the record's own id
create_items_by_id(details, ids) ==
  [i \in 1..Len(details) |-> create_item(details[i], details[i].id)]

\* [create_item(item, video_id) for item, video_id in zip(video_details, video_ids)]
create_items(details, ids) ==
  LET pairs == zip(details, ids)
  IN  [i \in 1..Len(pairs) |-> create_item(pairs[i][1], pairs[i][2])]

\* ",".join(video_ids)
RECURSIVE join(_, _)
join(sep, list) ==
  IF list = <<>> THEN ""
  ELSE IF Len(list) = 1 THEN list[1]
  ELSE list[1] \o sep \o join(sep, Tail(list))

\* a variant of extend that skips the ids the list already holds
extend_dedup(list, more) ==
  list \o SelectSeq(more, LAMBDA v : \A i \in 1..Len(list) : list[i] # v)

\* video_ids.extend(more)
extend(list, more) == list \o more

\* a variant of NoToken that tests `nextPageToken is None`
NoToken_none_only(token) == token = <<>>

\* `not nextPageToken`: None and the empty string are both falsy
NoToken(token) == token = <<>> \/ token[1] = ""

(***************************************************************************)
(* Rendering.                                                              *)
(***************************************************************************)
\* a variant of markdown_row that escapes the pipes of the title
RECURSIVE escape_pipes(_)
escape_pipes(text) ==
  IF text = "" THEN ""
  ELSE (IF Head(text) = "|" THEN "\\|" ELSE Head(text))
         \o escape_pipes(Tail(text))

markdown_row_escaped(item) ==
  "| [" \o escape_pipes(item.title) \o "](" \o item.url \o ") | "
    \o TimedeltaStr(item.duration) \o " |\n"

markdown_row(item) ==
  "| [" \o item.title \o "](" \o item.url \o ") | "
    \o TimedeltaStr(item.duration) \o " |\n"

RECURSIVE markdown_rows(_)
markdown_rows(its) ==
  IF its = <<>> THEN "" ELSE markdown_row(Head(its)) \o markdown_rows(Tail(its))

create_markdown_table(its) ==
  "| Title | Duration |\n" \o "| :--- | :---: |\n" \o markdown_rows(its)

csv_row(item) ==
  "\"" \o item.title \o "\"," \o item.url \o ","
    \o TimedeltaStr(item.duration)

\* print(text) onto out
print(out, text) == out \o text \o "\n"

RECURSIVE print_csv_rows(_, _)
print_csv_rows(out, its) ==
  IF its = <<>> THEN out
  ELSE print_csv_rows(print(out, csv_row(Head(its))), Tail(its))

(***************************************************************************)
(* The remote API, as far as the program sees it.                          *)
(***************************************************************************)
VideoIds == {"v1", "v2"}

VideoTitle(v) == IF v = "v1" THEN "A, B" ELSE "x|y \"z\""

VideoDuration(v) == IF v = "v1" THEN "PT1H2M3S" ELSE "PT25H30S"

\* one record of a videos.list response
VideoRecord(v) ==
  [id             |-> v,
   snippet        |-> [title |-> VideoTitle(v)],
   contentDetails |-> [duration |-> VideoDuration(v)]]

\* one record of a playlistItems.list response
PlaylistItem(v) == [contentDetails |-> [videoId |-> v]]

SeqsUpTo(S, n) == UNION {[1..k -> S] : k \in 0..n}

\* the continuation token the API hands out with its k-th page
PageToken(k) == "tok" \o FormatD(k)

\* the number of items on the pages served so far
RECURSIVE Listed(_)
Listed(responses) ==
  IF responses = <<>> THEN 0
  ELSE Len(Head(responses).items) + Listed(Tail(responses))

\* what the API may answer to the next playlistItems request, after the
\* pages in responses: any page of the items the playlist has left, with no
\* token, an empty one, or the token of this page when more pages may follow
PageResponses(responses) ==
  [items         : SeqsUpTo({PlaylistItem(v) : v \in VideoIds},
                            MaxListed - Listed(responses)),
   nextPageToken : {<<>>, <<"">>}
                     \cup (IF Len(responses) + 1 < MaxPages
                           THEN {<<PageToken(Len(responses) + 1)>>} ELSE {})]

\* what the API may answer to a videos request: the code reads the records
\* in the order given and never looks at their ids
DetailResponses ==
  [items : SeqsUpTo({VideoRecord(v) : v \in VideoIds}, DetailBatchLimit)]

(***************************************************************************)
(* State.                                                                  *)
(***************************************************************************)
VARIABLES
  pc,             \* where main stands
  args,           \* the parsed command line
  nextPageToken,  \* get_video_ids: <<>> is None
  video_ids,      \* get_video_ids' list, then main's
  video_details,  \* main: the records of the videos response
  items,          \* main's Item list
  stdout,         \* everything printed so far
  api_calls,      \* every request built and executed, in order
  pl_responses,   \* every playlistItems response received, in order
  call_raised,    \* whether some request's execute() has raised
  dur_in,         \* the duration parser alone: the fragments of its input
  dur_out         \* the duration parser alone: <<>> or <<result>>

vars == <<pc, args, nextPageToken, video_ids, video_details, items, stdout,
          api_calls, pl_responses, call_raised, dur_in, dur_out>>

Formats == {"md", "csv"}

Init ==
  /\ pc = "list"
  /\ args \in [playlist : {"PL1"}, format : Formats,
               include_total_duration : BOOLEAN]
  /\ nextPageToken = <<>>
  /\ video_ids = <<>>
  /\ video_details = <<>>
  /\ items = <<>>
  /\ stdout = ""
  /\ api_calls = <<>>
  /\ pl_responses = <<>>
  /\ call_raised = FALSE
  /\ dur_in = <<>>
  /\ dur_out = <<>>

\* the request one turn of the loop builds
PlaylistRequest ==
  [resource   |-> "playlistItems",
   part       |-> "contentDetails",
   playlistId |-> args.playlist,
   maxResults |-> PageSize,
   pageToken  |-> nextPageToken]

\* pl_response.get("nextPageToken")
GetNextPageToken(pl_response) == pl_response.nextPageToken

\* [item["contentDetails"]["videoId"] for item in items]
PageVideoIds(pl_response) ==
  [i \in 1..Len(pl_response.items) |->
     pl_response.items[i].contentDetails.videoId]

\* one turn of get_video_ids' loop whose request is answered
GetVideoIdsPage ==
  /\ pc = "list"
  /\ Len(pl_responses) < MaxPages
  /\ \E pl_response \in PageResponses(pl_responses) :
       /\ api_calls' = Append(api_calls, PlaylistRequest)
       /\ pl_responses' = Append(pl_responses, pl_response)
       /\ video_ids' = extend(video_ids, PageVideoIds(pl_response))
       /\ nextPageToken' = GetNextPageToken(pl_response)
       /\ pc' = IF NoToken(GetNextPageToken(pl_response))
                THEN "details" ELSE "list"
  /\ UNCHANGED <<args, video_details, items, stdout, call_raised, dur_in,
                 dur_out>>

\* one turn of the loop whose pl_request.execute() raises
GetVideoIdsFail ==
  /\ pc = "list"
  /\ Len(pl_responses) < MaxPages
  /\ api_calls' = Append(api_calls, PlaylistRequest)
  /\ call_raised' = TRUE
  /\ pc' = "failed"
  /\ UNCHANGED <<args, nextPageToken, video_ids, video_details, items, stdout,
                 pl_responses, dur_in, dur_out>>

\* a variant of VideosRequest that asks for the first batch of ids only
VideosRequest_first_batch ==
  [resource |-> "videos",
   part     |-> "snippet,contentDetails",
   id       |-> join(",", SubSeq(video_ids, 1,
                                 IF Len(video_ids) < DetailBatchLimit
                                 THEN Len(video_ids) ELSE DetailBatchLimit))]

\* the request get_video_details builds from the list
VideosRequest ==
  [resource |-> "videos",
   part     |-> "snippet,contentDetails",
   id       |-> join(",", video_ids)]

GetVideoDetails ==
  /\ pc = "details"
  /\ \E vid_response \in DetailResponses :
       /\ api_calls' = Append(api_calls, VideosRequest)
       /\ video_details' = vid_response.items
  /\ pc' = "assemble"
  /\ UNCHANGED <<args, nextPageToken, video_ids, items, stdout, pl_responses,
                 call_raised, dur_in, dur_out>>

\* a variant of GetVideoDetailsFail that catches the error and goes on with
\* no records
GetVideoDetailsFail_swallowed ==
  /\ pc = "details"
  /\ api_calls' = Append(api_calls, VideosRequest)
  /\ call_raised' = TRUE
  /\ video_details' = <<>>
  /\ pc' = "assemble"
  /\ UNCHANGED <<args, nextPageToken, video_ids, items, stdout, pl_responses,
                 dur_in, dur_out>>

\* vid_request.execute() raises
GetVideoDetailsFail ==
  /\ pc = "details"
  /\ api_calls' = Append(api_calls, VideosRequest)
  /\ call_raised' = TRUE
  /\ pc' = "failed"
  /\ UNCHANGED <<args, nextPageToken, video_ids, video_details, items, stdout,
                 pl_responses, dur_in, dur_out>>

CreateItems ==
  /\ pc = "assemble"
  /\ items' = create_items(video_details, video_ids)
  /\ pc' = "total"
  /\ UNCHANGED <<args, nextPageToken, video_ids, video_details, stdout,
                 api_calls, pl_responses, call_raised, dur_in, dur_out>>

TotalItem(its) ==
  [title |-> "Total Duration", url |-> "", duration |-> get_total_duration(its)]

AppendTotal ==
  /\ pc = "total"
  /\ items' = IF args.include_total_duration
              THEN Append(items, TotalItem(items))
              ELSE items
  /\ pc' = "render"
  /\ UNCHANGED <<args, nextPageToken, video_ids, video_details, stdout,
                 api_calls, pl_responses, call_raised, dur_in, dur_out>>

RenderMarkdown ==
  /\ pc = "render"
  /\ args.format = "md"
  /\ stdout' = print(stdout, create_markdown_table(items))
  /\ pc' = "done"
  /\ UNCHANGED <<args, nextPageToken, video_ids, video_details, items,
                 api_calls, pl_responses, call_raised, dur_in, dur_out>>

RenderCsv ==
  /\ pc = "render"
  /\ args.format = "csv"
  /\ stdout' = print_csv_rows(print(stdout, "title,url,duration"), items)
  /\ pc' = "done"
  /\ UNCHANGED <<args, nextPageToken, video_ids, video_details, items,
                 api_calls, pl_responses, call_raised, dur_in, dur_out>>

Next ==
  \/ GetVideoIdsPage
  \/ GetVideoIdsFail
  \/ GetVideoDetails
  \/ GetVideoDetailsFail
  \/ CreateItems
  \/ AppendTotal
  \/ RenderMarkdown
  \/ RenderCsv

Spec == Init /\ [][Next]_vars

\* every execute() of the pagination loop returns or raises, so a turn of the
\* loop that can be taken is taken
LiveSpec == Spec /\ WF_vars(GetVideoIdsPage \/ GetVideoIdsFail)

(***************************************************************************)
(* The duration parser alone: its input is drawn from the grammar          *)
(* [PT][nH][nM][nS], the fragments kept apart in dur_in.                   *)
(***************************************************************************)
FragmentDigits == {"0", "1", "7"}

RECURSIVE DigitStrings(_)
DigitStrings(n) ==
  IF n = 0 THEN {}
  ELSE FragmentDigits
         \cup {d \o t : d \in FragmentDigits, t \in DigitStrings(n - 1)}

OptionalNumber == {<<>>} \cup {<<n>> : n \in DigitStrings(MaxDigits)}

Fragment(n, suffix) == IF n = <<>> THEN "" ELSE n[1] \o suffix

\* the duration string with the fragments of src
DurationString(src) ==
  (IF src.pt THEN "PT" ELSE "")
    \o Fragment(src.h, "H") \o Fragment(src.m, "M") \o Fragment(src.s, "S")

DurationInit ==
  /\ pc = "parse"
  /\ dur_in \in [pt : BOOLEAN, h : OptionalNumber, m : OptionalNumber,
                 s : OptionalNumber]
  /\ dur_out = <<>>
  /\ args = [playlist |-> "PL1", format |-> "md",
             include_total_duration |-> FALSE]
  /\ nextPageToken = <<>>
  /\ video_ids = <<>>
  /\ video_details = <<>>
  /\ items = <<>>
  /\ stdout = ""
  /\ api_calls = <<>>
  /\ pl_responses = <<>>
  /\ call_raised = FALSE

ExtractDuration ==
  /\ pc = "parse"
  /\ dur_out' = <<_extract_duration(
                    [contentDetails |-> [duration |-> DurationString(dur_in)]])>>
  /\ pc' = "parsed"
  /\ UNCHANGED <<args, nextPageToken, video_ids, video_details, items, stdout,
                 api_calls, pl_responses, call_raised, dur_in>>

DurationNext == ExtractDuration

DurationSpec == DurationInit /\ [][DurationNext]_vars

(***************************************************************************)
(* What the properties below are stated with.  None of it is used by the   *)
(* actions above.                                                          *)
(***************************************************************************)
Min(a, b) == IF a < b THEN a ELSE b

\* the whole seconds a timedelta stands for
total_seconds(td) == td.days * 86400 + td.seconds

\* the ids of every page served, page after page
RECURSIVE ServedIdsOf(_)
ServedIdsOf(responses) ==
  IF responses = <<>> THEN <<>>
  ELSE LET n    == Len(responses)
           page == responses[n].items
       IN  ServedIdsOf(SubSeq(responses, 1, n - 1))
             \o [i \in 1..Len(page) |-> page[i].contentDetails.videoId]

ServedIds == ServedIdsOf(pl_responses)

\* the playlistItems requests among the calls, in order
PlaylistCalls == SelectSeq(api_calls, LAMBDA c : c.resource = "playlistItems")

AbsentOrEmpty(token) == token \in {<<>>, <<"">>}

\* the elapsed seconds each catalogued video's duration string stands for
VideoSeconds(v) == IF v = "v1" THEN 1 * 3600 + 2 * 60 + 3 ELSE 25 * 3600 + 30

\* the position of the first / last occurrence of character c in text, or 0
RECURSIVE IndexFrom(_, _, _)
IndexFrom(text, c, i) ==
  IF i > Len(text) THEN 0
  ELSE IF CharAt(text, i) = c THEN i ELSE IndexFrom(text, c, i + 1)

RECURSIVE LastIndexFrom(_, _, _)
LastIndexFrom(text, c, i) ==
  IF i = 0 THEN 0
  ELSE IF CharAt(text, i) = c THEN i ELSE LastIndexFrom(text, c, i - 1)

\* the lines of a text in which every line ends with a newline
RECURSIVE Lines(_)
Lines(text) ==
  IF text = "" THEN <<>>
  ELSE LET n == IndexFrom(text, "\n", 1)
       IN  <<SubSeq(text, 1, n - 1)>> \o Lines(SubSeq(text, n + 1, Len(text)))

\* the row lines of the output: the lines after the header
OutputRows ==
  LET lines == Lines(stdout)
  IN  IF args.format = "md"
      THEN SubSeq(lines, 3, Len(lines) - 1)
      ELSE SubSeq(lines, 2, Len(lines))

\* the duration field of a row line: the last field of the row
DurationField(line) ==
  IF args.format = "md"
  THEN LET body == SubSeq(line, 1, Len(line) - 2)
       IN  SubSeq(body, LastIndexFrom(body, "|", Len(body)) + 2, Len(body))
  ELSE SubSeq(line, LastIndexFrom(line, ",", Len(line)) + 1, Len(line))

AllDigits(text) ==
  /\ Len(text) >= 1
  /\ \A i \in 1..Len(text) : CharAt(text, i) \in DigitChars

\* the positional value of a string of decimal digits
RECURSIVE DecimalValue(_)
DecimalValue(text) ==
  IF text = "" THEN 0
  ELSE LET n == Len(text)
       IN  DigitVal(CharAt(text, n)) + 10 * DecimalValue(SubSeq(text, 1, n - 1))

\* a text read under the fixed format H:MM:SS: <<seconds>>, or <<>> when the
\* text is not of that format
ParseHMS(text) ==
  LET n == Len(text)
  IN  IF /\ n >= 7
         /\ CharAt(text, n - 2) = ":"
         /\ CharAt(text, n - 5) = ":"
         /\ AllDigits(SubSeq(text, n - 1, n))
         /\ AllDigits(SubSeq(text, n - 4, n - 3))
         /\ AllDigits(SubSeq(text, 1, n - 6))
      THEN <<DecimalValue(SubSeq(text, 1, n - 6)) * 3600
               + DecimalValue(SubSeq(text, n - 4, n - 3)) * 60
               + DecimalValue(SubSeq(text, n - 1, n))>>
      ELSE <<>>

RECURSIVE SumOfSeconds(_, _)
SumOfSeconds(its, n) ==
  IF n = 0 THEN 0 ELSE SumOfSeconds(its, n - 1) + total_seconds(its[n].duration)

RECURSIVE CommaJoined(_, _)
CommaJoined(ids, n) ==
  IF n = 0 THEN ""
  ELSE IF n = 1 THEN ids[1]
  ELSE CommaJoined(ids, n - 1) \o "," \o ids[n]

Assembled == pc \in {"total", "render", "done"}

\* the number of video items, the Total Duration row not counted
VideoItemCount ==
  IF pc \in {"render", "done"} /\ args.include_total_duration
  THEN Len(items) - 1
  ELSE Len(items)

(***************************************************************************)
(* The properties.                                                         *)
(***************************************************************************)

\* the videos endpoint answered in the order asked, one record per id
\* asked for, as far as its batch limit goes
DetailsAlignedWithRequest ==
  /\ Len(video_details) = Min(DetailBatchLimit, Len(video_ids))
  /\ \A i \in 1..Len(video_details) : video_details[i].id = video_ids[i]

\* C1: a run of main that completes has rendered exactly one row for each
\* video id the paged list endpoint returned, in discovery order, each row
\* with that video's own title, URL and duration; stated here for the runs
\* in which the videos endpoint answered in request order up to its batch
\* limit, playlists longer than that limit included.
C1_OneRowPerListedVideo ==
  pc = "done" /\ DetailsAlignedWithRequest =>
    /\ Len(OutputRows) = Len(ServedIds) + Len(items) - VideoItemCount
    /\ \A i \in 1..Len(ServedIds) :
         /\ i <= VideoItemCount
         /\ items[i].title = VideoTitle(ServedIds[i])
         /\ items[i].url = "https://www.youtube.com/watch?v=" \o ServedIds[i]
         /\ total_seconds(items[i].duration) = VideoSeconds(ServedIds[i])

\* C2: the list get_video_ids builds is the concatenation, page after page
\* and in the order within each page, of the video ids of every page served:
\* nothing dropped, duplicated, reordered or de-duplicated.
C2_IdsAreConcatenationOfPages == video_ids = ServedIds

C2_Witness ==
  /\ pc = "done"
  /\ Len(pl_responses) = 2
  /\ video_ids = <<"v2", "v1", "v2">>
  /\ Len(pl_responses[1].items) = 2

\* C3: the first playlist request carries no token, every later one carries
\* exactly the token of the response before it, which was a token and not
\* absent or empty; once a response has no token the loop has ended with one
\* request per page and no request follows; and the loop ends.
C3_Safety ==
  /\ Len(PlaylistCalls) >= 1 => PlaylistCalls[1].pageToken = <<>>
  /\ Len(PlaylistCalls) <= Len(pl_responses) + 1
  /\ \A i \in 2..Len(PlaylistCalls) :
       /\ PlaylistCalls[i].pageToken = pl_responses[i - 1].nextPageToken
       /\ ~AbsentOrEmpty(pl_responses[i - 1].nextPageToken)
  /\ (\E i \in 1..Len(pl_responses) :
        AbsentOrEmpty(pl_responses[i].nextPageToken))
       => /\ pc # "list"
          /\ Len(PlaylistCalls) = Len(pl_responses)
          /\ AbsentOrEmpty(pl_responses[Len(pl_responses)].nextPageToken)
  /\ pc \in {"details", "assemble", "total", "render", "done"}
       => /\ Len(pl_responses) >= 1
          /\ AbsentOrEmpty(pl_responses[Len(pl_responses)].nextPageToken)

C3_Pagination == []C3_Safety /\ <>(pc # "list")

C3_Witness ==
  /\ pc = "details"
  /\ Len(PlaylistCalls) = 2
  /\ PlaylistCalls[2].pageToken = <<PageToken(1)>>
  /\ pl_responses[2].nextPageToken = <<"">>

\* C4: for a duration string made of optional nH, nM, nS fragments in that
\* order, with or without a leading PT, _extract_duration returns
\* hours*3600 + minutes*60 + seconds seconds, an absent fragment counting 0.
FragmentValue(n) == IF n = <<>> THEN 0 ELSE DecimalValue(n[1])

C4_DurationOfFragments ==
  dur_out # <<>> =>
    total_seconds(dur_out[1])
      = FragmentValue(dur_in.h) * 3600 + FragmentValue(dur_in.m) * 60
          + FragmentValue(dur_in.s)

C4_Witness ==
  /\ dur_out # <<>>
  /\ DurationString(dur_in) = "PT17H07S"
  /\ total_seconds(dur_out[1]) = 61207

\* C5: the items are the positional pairing of the detail records with the
\* ids: as many as the shorter of the two, the i-th with the title and
\* duration of the i-th record returned and the link of the i-th id fetched.
C5_PositionalPairing ==
  Assembled =>
    /\ VideoItemCount = Min(Len(video_details), Len(video_ids))
    /\ \A i \in 1..VideoItemCount :
         /\ items[i].title = video_details[i].snippet.title
         /\ total_seconds(items[i].duration) = VideoSeconds(video_details[i].id)
         /\ items[i].url = "https://www.youtube.com/watch?v=" \o video_ids[i]

\* one video's title and duration beside another video's link
C5_Witness ==
  /\ pc = "total"
  /\ video_ids = <<"v1", "v2", "v2">>
  /\ Len(video_details) = 2
  /\ items[1].title = VideoTitle("v2")
  /\ items[1].url = "https://www.youtube.com/watch?v=v1"

\* C6: with include_total_duration the step after assembly appends exactly
\* one row, last, titled "Total Duration", with an empty url and the sum of
\* the durations of the items before it; without the flag it leaves the
\* items as they are.
C6_TotalRow ==
  [][pc = "total" =>
       IF args.include_total_duration
       THEN /\ Len(items') = Len(items) + 1
            /\ SubSeq(items', 1, Len(items)) = items
            /\ items'[Len(items')].title = "Total Duration"
            /\ items'[Len(items')].url = ""
            /\ total_seconds(items'[Len(items')].duration)
                 = SumOfSeconds(items, Len(items))
       ELSE items' = items]_vars

C6_Witness ==
  /\ pc = "render"
  /\ args.include_total_duration
  /\ Len(items) = 3
  /\ total_seconds(items[3].duration) = 90030 + 3723

\* C7: once a remote call has raised, the run has aborted: nothing is
\* printed, and no request is issued and nothing is printed afterwards.
C7_AbortOnFailure ==
  /\ [](call_raised => pc = "failed" /\ stdout = "")
  /\ [][call_raised => UNCHANGED <<api_calls, stdout>>]_vars

C7_Witness ==
  /\ call_raised
  /\ Len(pl_responses) = 1
  /\ Len(video_ids) = 2
  /\ api_calls[Len(api_calls)].resource = "videos"

\* C8 as stated: the duration field of every rendered row, the Total
\* Duration row included and whatever the duration, reads back under
\* H:MM:SS as the row's duration in seconds.
C8_RoundTripAnyDuration ==
  pc = "done" =>
    \A i \in 1..Len(items) :
      ParseHMS(DurationField(OutputRows[i]))
        = <<total_seconds(items[i].duration)>>

\* C8 (amended): the duration field of every rendered row whose duration is
\* under 24 hours, the Total Duration row included, reads back under
\* H:MM:SS as the row's duration in seconds.
C8_RoundTripUnderOneDay ==
  pc = "done" =>
    \A i \in 1..Len(items) :
      total_seconds(items[i].duration) < 86400 =>
        ParseHMS(DurationField(OutputRows[i]))
          = <<total_seconds(items[i].duration)>>

C8_Witness ==
  /\ pc = "done"
  /\ Len(items) = 3
  /\ items[3].title = "Total Duration"
  /\ DurationField(OutputRows[3]) = "2:04:06"

\* C9: the output is the items in order in the format asked for and in no
\* other: Markdown is the two header lines, one row | [title](url) | duration |
\* per item and the empty line print ends the table with; CSV is the header
\* title,url,duration and one row "title",url,duration per item; the title
\* is written as it is.
C9_RenderedText ==
  pc = "done" =>
    Lines(stdout) =
      IF args.format = "md"
      THEN <<"| Title | Duration |", "| :--- | :---: |">>
             \o [i \in 1..Len(items) |->
                   "| [" \o items[i].title \o "](" \o items[i].url \o ") | "
                     \o TimedeltaStr(items[i].duration) \o " |"]
             \o <<"">>
      ELSE <<"title,url,duration">>
             \o [i \in 1..Len(items) |->
                   "\"" \o items[i].title \o "\"," \o items[i].url \o ","
                     \o TimedeltaStr(items[i].duration)]

C9_Witness ==
  /\ pc = "done"
  /\ args.format = "csv"
  /\ Len(items) = 2
  /\ Lines(stdout)[2]
       = "\"x|y \"z\"\",https://www.youtube.com/watch?v=v1,1 day, 1:00:30"

\* C10: every playlist request comes before the one videos request, which
\* carries every collected id comma-joined in discovery order, nothing
\* follows the videos request, and text is printed only after its response.
C10_CallOrder ==
  /\ \A i \in 1..(Len(api_calls) - 1) : api_calls[i].resource = "playlistItems"
  /\ Assembled \/ pc = "assemble" =>
       /\ Len(api_calls) = Len(pl_responses) + 1
       /\ api_calls[Len(api_calls)].resource = "videos"
       /\ api_calls[Len(api_calls)].id = CommaJoined(ServedIds, Len(ServedIds))
  /\ stdout # "" => pc = "done"

C10_Witness ==
  /\ pc = "done"
  /\ Len(video_ids) > DetailBatchLimit
  /\ api_calls[Len(api_calls)].id = "v1,v2,v1"
  /\ stdout # ""

====
